---- MODULE Spec2Model ----
(***************************************************************************)
(* A model of the two solvers of pymanopt/solvers that are present in the  *)
(* source tree: BarzilaiBorwein (barzilai_borwein.py) and NelderMead       *)
(* (nelder_mead.py).                                                       *)
(*                                                                         *)
(* The autodiff backends (_pytorch.py, _theano.py) are modelled in a       *)
(* specification of their own, BackendSpec, further down.                  *)
(*                                                                         *)
(* One behaviour is one solver object and one call of its solve method.    *)
(* The manifold, the cost function and the gradient are external: a        *)
(* manifold point is an element of Points, the cost function is a table    *)
(* obj chosen in the initial state, and every manifold operation that      *)
(* yields a point (rand, exp, pairmean, the centroid, the line search's    *)
(* new point) yields any element of Points.  Tangent vectors that enter    *)
(* the Barzilai-Borwein step are pairs of small integers with the          *)
(* Euclidean inner product.                                                *)
(*                                                                         *)
(* Reading of barzilai_borwein.py.  The file is a port of barzilaiborwein.m*)
(* and carries surface slips (missing colons in lines 153-170, no numpy    *)
(* import, self used in static methods, y for Y in line 165, the two       *)
(* argument np.min / np.max).  They are read as the statements they stand  *)
(* for: np.min(a, b) and np.max(a, b) are the binary minimum and maximum.  *)
(* nelder_mead.py is Python 2 (print statements): the variable of a list   *)
(* comprehension stays bound after the comprehension.                      *)
(***************************************************************************)
EXTENDS Integers, Sequences, FiniteSets

VARIABLES
    solver,            \* "BB" or "NM": the class of the solver object
    pc,                \* position in solve
    obj,               \* the cost function, a table over Points
    x,                 \* BB: the current point; NM: the simplex (a sequence)
    iter,              \* the local iter of solve
    result,            \* how solve ended: <<"point", p>>, <<"pair", p, log>>
                       \* or <<"raise", exception>>; <<>> before it ends
    \* ---- Solver base fields (pymanopt/solvers/solver.py)
    maxiter,           \* self._maxiter      (Option)
    maxcostevals,      \* self._maxcostevals (Option)
    mingradnorm,       \* self._mingradnorm
    minstepsize,       \* self._minstepsize
    logverbosity,      \* self._logverbosity
    optlog,            \* the calls made to the optimization log, in order
    \* ---- BarzilaiBorwein
    lambdamax,         \* self._lambdamax
    lambdamin,         \* self._lambdamin
    lambda0,           \* self._lambda0
    strategy,          \* self._strategy
    linesearch,        \* self._linesearch
    lambda_,           \* the Barzilai-Borwein step
    stepsize,          \* Option: <<>> is np.nan
    gradnorm,
    Stransp,           \* the transported step of the last iteration
    Y,                 \* the gradient difference of the last iteration
    \* ---- NelderMead
    dim,               \* man.dim
    costs,             \* the recorded costs of the simplex points
    xi,                \* the leaked list-comprehension variable (Option)
    costevals,
    xr,                \* the reflected point of the last iteration
    costr,             \* its cost
    xc,                \* the second point the last iteration evaluated
                       \* (xe, xoc or xic), 0 when it evaluated none
    printed,           \* the step name the last iteration printed
    ctor,              \* the constructor's arguments maxcostevals, maxiter
    \* ---- autodiff backends (BackendSpec)
    backend,           \* "PyTorch" or "Theano"; "none" in a solver's run
    arguments,         \* the argument signature the cost was decorated with
    point,             \* the point the derivatives are called at
    egrad_value,       \* what the callable of compute_gradient() returned
    ehess_value,       \* what the callable of compute_hessian() returned
    \* ---- repeated calls (TwiceSpec)
    call,              \* 1 or 2: which call of solve runs; 0 when one only
    hist               \* the first call's trajectory, a snapshot per step

vars == <<solver, pc, obj, x, iter, result, maxiter, maxcostevals, mingradnorm,
          minstepsize, logverbosity, optlog, lambdamax, lambdamin, lambda0,
          strategy, linesearch, lambda_, stepsize, gradnorm, Stransp, Y,
          dim, costs, xi, costevals, xr, costr, xc, printed, ctor,
          backend, arguments, point, egrad_value, ehess_value, call, hist>>

bbLocals == <<lambda_, stepsize, gradnorm, Stransp, Y>>
bbFields == <<lambdamax, lambdamin, lambda0, strategy, linesearch>>
nmLocals == <<dim, costs, xi, costevals, xr, costr, xc, printed>>
baseFields == <<mingradnorm, minstepsize, logverbosity>>
adVars == <<backend, arguments, point, egrad_value, ehess_value>>
twiceVars == <<call, hist>>
solverVars == <<solver, pc, obj, x, iter, result, maxiter, maxcostevals,
                baseFields, optlog, bbFields, bbLocals, nmLocals, ctor,
                twiceVars>>

----------------------------------------------------------------------------
(* Bounds of the model *)

\* Manifold points are 1..NPoints.
NPoints == 3
\* Cost values are 0..MaxCost.
MaxCost == 2
\* Tangent vector components are -MaxComp..MaxComp.
MaxComp == 1
\* man.dim is 1..MaxDim.
MaxDim == 2
\* The loop of solve is followed for at most MaxIter + 1 passes: a caller's
\* maxiter is MaxIter for NelderMead (which counts the pass it is in) and
\* MaxIter + 1 for BarzilaiBorwein (which tests iter + 1); an earlier stop
\* is one by the clock.
MaxIter == 2
\* Line-search step sizes are 0..MaxNorm.
MaxNorm == 1
\* A cost function of the backends has 1..MaxParams logical parameters,
\* a grouped parameter has 2..MaxGroup arrays, and an array has one of the
\* shapes 1..MaxShape.
MaxParams == 2
MaxGroup == 2
MaxShape == 2

Points == 1..NPoints
CostVals == 0..MaxCost
Vectors == (-MaxComp..MaxComp) \X (-MaxComp..MaxComp)

----------------------------------------------------------------------------
(* Values *)

\* Python's None, and a value that is present.
None == <<>>
Some(v) == <<v>>
Val(o) == o[1]

\* Rational numbers <<n, d>> with d > 0 stand for the floats of the code.
RLe(a, b) == a[1] * b[2] <= b[1] * a[2]
RLt(a, b) == a[1] * b[2] < b[1] * a[2]
REq(a, b) == a[1] * b[2] = b[1] * a[2]

\* np.min(a, b), np.max(a, b) of two scalars (barzilai_borwein.py:157-158).
NpMin(a, b) == IF RLe(a, b) THEN a ELSE b
NpMax(a, b) == IF RLe(a, b) THEN b ELSE a

\* man.inner(x, U, V) and man.norm(x, U) ** 2 on the Euclidean plane.
Inner(U, V) == U[1] * V[1] + U[2] * V[2]
NormSq(U) == Inner(U, U)

----------------------------------------------------------------------------
(* BarzilaiBorwein: the three strategies *)

Strategies == {"direct", "inverse", "alternate"}

\* A direct strategy that forgets the upper clip.
ApplyDirect_NoUpperClip(S, Yv, it) ==
    LET num == NormSq(S)
        den == Inner(S, Yv)
    IN  IF den > 0 THEN NpMax(lambdamin, <<num, den>>) ELSE lambdamax

\* _apply_direct_strategy
ApplyDirect(S, Yv, it) ==
    LET num == NormSq(S)
        den == Inner(S, Yv)
    IN  IF den > 0
        THEN NpMin(lambdamax, NpMax(lambdamin, <<num, den>>))
        ELSE lambdamax

\* An inverse strategy that falls back to the lower bound.
ApplyInverse_FallbackMin(S, Yv, it) ==
    LET num == Inner(S, Yv)
        den == NormSq(Yv)
    IN  IF num > 0
        THEN NpMin(lambdamax, NpMax(lambdamin, <<num, den>>))
        ELSE lambdamin

\* _apply_inverse_strategy
ApplyInverse(S, Yv, it) ==
    LET num == Inner(S, Yv)
        den == NormSq(Yv)
    IN  IF num > 0
        THEN NpMin(lambdamax, NpMax(lambdamin, <<num, den>>))
        ELSE lambdamax

\* An alternate strategy that takes the inverse ratio on even iterations and
\* the direct ratio on odd ones.
ApplyAlternate_OddDirect(S, Yv, it) ==
    LET num == NormSq(S)
        den == Inner(S, Yv)
        den2 == NormSq(Yv)
    IN  IF den > 0
        THEN IF it % 2 = 1
             THEN NpMin(lambdamax, NpMax(lambdamin, <<num, den>>))
             ELSE NpMin(lambdamax, NpMax(lambdamin, <<den, den2>>))
        ELSE lambdamax

\* _apply_alternate_strategy
ApplyAlternate(S, Yv, it) ==
    LET num == NormSq(S)
        den == Inner(S, Yv)
        den2 == NormSq(Yv)
    IN  IF den > 0
        THEN IF it % 2 = 0
             THEN NpMin(lambdamax, NpMax(lambdamin, <<num, den>>))
             ELSE NpMin(lambdamax, NpMax(lambdamin, <<den, den2>>))
        ELSE lambdamax

\* self._apply_strategy, bound in __init__ by the value of strategy
ApplyStrategy(S, Yv, it) ==
    CASE strategy = "direct" -> ApplyDirect(S, Yv, it)
      [] strategy = "inverse" -> ApplyInverse(S, Yv, it)
      [] strategy = "alternate" -> ApplyAlternate(S, Yv, it)

\* Strategies whose guard lets a vanishing inner product through.
Divisor_GuardNotStrict(S, Yv, it) ==
    CASE strategy = "direct" ->
           IF Inner(S, Yv) >= 0 THEN Some(Inner(S, Yv)) ELSE None
      [] strategy = "inverse" ->
           IF Inner(S, Yv) >= 0 THEN Some(NormSq(Yv)) ELSE None
      [] strategy = "alternate" ->
           IF Inner(S, Yv) >= 0
           THEN IF it % 2 = 0 THEN Some(Inner(S, Yv)) ELSE Some(NormSq(Yv))
           ELSE None

\* The divisor of the division the strategy executes on (S, Yv, it); None
\* when it executes none.
Divisor(S, Yv, it) ==
    CASE strategy = "direct" ->
           IF Inner(S, Yv) > 0 THEN Some(Inner(S, Yv)) ELSE None
      [] strategy = "inverse" ->
           IF Inner(S, Yv) > 0 THEN Some(NormSq(Yv)) ELSE None
      [] strategy = "alternate" ->
           IF Inner(S, Yv) > 0
           THEN IF it % 2 = 0 THEN Some(Inner(S, Yv)) ELSE Some(NormSq(Yv))
           ELSE None

----------------------------------------------------------------------------
(* Solver base: the stopping criterion and the optimization log *)

\* Solver._check_stopping_criterion(time0, gradnorm, iter, stepsize): a stop
\* reason or none.  timeup is the outcome of the clock test.
BaseStop(timeup, it, gn, ss) ==
    \/ timeup
    \/ (maxiter # None /\ it >= Val(maxiter))
    \/ gn < mingradnorm
    \/ (ss # None /\ Val(ss) < minstepsize)

----------------------------------------------------------------------------
(* What the environment of solve gives it *)

\* What a call of solve has reached: its position, its locals, its result
\* and (BarzilaiBorwein) its log.
Snapshot ==
    [pc |-> pc, x |-> x, iter |-> iter, result |-> result,
     optlog |-> IF pc = "init" THEN <<>> ELSE optlog,
     lambda_ |-> lambda_, stepsize |-> stepsize, gradnorm |-> gradnorm,
     Stransp |-> Stransp, Y |-> Y, dim |-> dim, costs |-> costs, xi |-> xi,
     costevals |-> costevals, xr |-> xr, costr |-> costr, xc |-> xc,
     printed |-> printed]

\* The number of steps the running call has made, read off pc and iter:
\* NelderMead counts a pass at its head (line 135), BarzilaiBorwein at its
\* end (line 142).
StepsTaken ==
    CASE pc = "init" -> 0
      [] pc = "loop" -> 1 + 2 * iter
      [] pc \in {"body", "break"} ->
           IF solver = "NM" THEN 2 * iter ELSE 2 + 2 * iter
      [] pc \in {"returned", "raised"} ->
           IF solver = "NM" THEN 1 + 2 * iter ELSE 3 + 2 * iter

\* The manifold, the cost, the gradient, the line search and the caller
\* are deterministic: a second call of solve on the same arguments
\* (call = 2, see TwiceSpec) that is where the first call was is given,
\* out of the values S that are possible, the value the first call was
\* given in the same step.  Anywhere else any value of S may be given.
Replaying == call = 2 /\ StepsTaken + 2 <= Len(hist)
Then == IF Replaying THEN hist[StepsTaken + 2] ELSE Snapshot
Given(S, v) == IF Replaying THEN S \cap {v} ELSE S

----------------------------------------------------------------------------
(* BarzilaiBorwein.solve *)

\* man.norm(x, gradient(x)): the gradient vanishes at point 1 alone.
GradNorm(p) == IF p = 1 THEN 0 ELSE 1

\* A constructor that does not validate the strategy.
BB_Init_NoValidation ==
    /\ solver = "BB"
    /\ pc = "new"
    /\ pc' = "init"
    /\ UNCHANGED <<solver, obj, x, iter, result, maxiter, maxcostevals,
                   baseFields, optlog, bbFields, bbLocals, nmLocals, ctor,
                   adVars, twiceVars>>

\* BarzilaiBorwein.__init__ (lines 23-49): the fields are the arguments;
\* a strategy that is none of the three is rejected.
BB_Init ==
    /\ solver = "BB"
    /\ pc = "new"
    /\ IF strategy \in Strategies
       THEN pc' = "init" /\ UNCHANGED result
       ELSE pc' = "raised" /\ result' = <<"raise", "ValueError">>
    /\ UNCHANGED <<solver, obj, x, iter, maxiter, maxcostevals,
                   baseFields, optlog, bbFields, bbLocals, nmLocals, ctor,
                   adVars, twiceVars>>

\* A start that continues the log the solver object holds instead of
\* beginning a new one.
BB_Solve_KeepsLog ==
    /\ solver = "BB"
    /\ pc = "init"
    /\ \E p \in Given(Points, Then.x) : x' = p
    /\ iter' = 0
    /\ stepsize' = None
    /\ gradnorm' = GradNorm(x')
    /\ lambda_' = lambda0
    /\ optlog' = Append(optlog, "start")
    /\ pc' = "loop"
    /\ UNCHANGED <<solver, obj, result, maxiter, maxcostevals, baseFields,
                   bbFields, Stransp, Y, nmLocals, ctor, adVars, twiceVars>>

\* Lines 51-87: up to the start of the log.
BB_Solve ==
    /\ solver = "BB"
    /\ pc = "init"
    /\ \E p \in Given(Points, Then.x) : x' = p
    /\ iter' = 0
    /\ stepsize' = None
    /\ gradnorm' = GradNorm(x')
    /\ lambda_' = lambda0
    /\ optlog' = <<"start">>
    /\ pc' = "loop"
    /\ UNCHANGED <<solver, obj, result, maxiter, maxcostevals, baseFields,
                   bbFields, Stransp, Y, nmLocals, ctor, adVars, twiceVars>>

\* A loop head that logs only the passes that go on to iterate.
BB_Check_NoAppendOnStop ==
    /\ solver = "BB"
    /\ pc = "loop"
    /\ \E timeup \in BOOLEAN :
         /\ pc' = IF BaseStop(timeup, iter + 1, gradnorm, stepsize)
                  THEN "break" ELSE "body"
         /\ optlog' = IF logverbosity >= 2 /\ pc' = "body"
                      THEN Append(optlog, "append") ELSE optlog
    /\ UNCHANGED <<solver, obj, x, iter, result, maxiter, maxcostevals,
                   baseFields, bbFields, bbLocals, nmLocals, ctor,
                   adVars, twiceVars>>

\* Lines 89-103: the head of the loop.
BB_Check ==
    /\ solver = "BB"
    /\ pc = "loop"
    /\ optlog' = IF logverbosity >= 2 THEN Append(optlog, "append") ELSE optlog
    /\ \E timeup \in BOOLEAN :
         pc' = IF BaseStop(timeup, iter + 1, gradnorm, stepsize)
               THEN "break" ELSE "body"
    /\ UNCHANGED <<solver, obj, x, iter, result, maxiter, maxcostevals,
                   baseFields, bbFields, bbLocals, nmLocals, ctor,
                   adVars, twiceVars>>

\* Lines 105-142: one iteration.  (start, line 110, is not used.)
BB_Iterate ==
    /\ solver = "BB"
    /\ pc = "body"
    /\ \/ \* line 112: the placeholder line search returns 1, which does not
          \* unpack into (stepsize, newx)
          /\ linesearch = "placeholder"
          /\ pc' = "raised"
          /\ result' = <<"raise", "TypeError">>
          /\ UNCHANGED <<x, iter, bbLocals>>
       \/ \* a line search that returns (stepsize, newx)
          /\ linesearch = "pair"
          /\ \E ss \in Given(0..MaxNorm, Val(Then.stepsize)),
                newx \in Points,
                S \in Given(Vectors, Then.Stransp),
                Yv \in Given(Vectors, Then.Y) :
               /\ Stransp' = S
               /\ Y' = Yv
               /\ IF Divisor(S, Yv, iter) = Some(0)
                  THEN /\ pc' = "raised"
                       /\ result' = <<"raise", "ZeroDivisionError">>
                       /\ stepsize' = Some(ss)
                       /\ UNCHANGED <<x, iter, lambda_, gradnorm>>
                  ELSE /\ lambda_' = ApplyStrategy(S, Yv, iter)
                       /\ UNCHANGED result
                       /\ stepsize' = Some(ss)
                       /\ x' = newx
                       /\ gradnorm' = GradNorm(newx)
                       /\ iter' = iter + 1
                       /\ pc' = "loop"
    /\ UNCHANGED <<solver, obj, maxiter, maxcostevals, baseFields,
                   optlog, bbFields, nmLocals, ctor, adVars, twiceVars>>

\* Lines 144-150.
BB_Return ==
    /\ solver = "BB"
    /\ pc = "break"
    /\ IF logverbosity <= 0
       THEN /\ result' = <<"point", x>>
            /\ UNCHANGED optlog
       ELSE /\ optlog' = Append(optlog, "stop")
            /\ result' = <<"pair", x, optlog'>>
    /\ pc' = "returned"
    /\ UNCHANGED <<solver, obj, x, iter, maxiter, maxcostevals, baseFields,
                   bbFields, bbLocals, nmLocals, ctor, adVars, twiceVars>>

----------------------------------------------------------------------------
(* NelderMead: helpers *)

Max(a, b) == IF a >= b THEN a ELSE b
Min(a, b) == IF a <= b THEN a ELSE b

\* Lines 100-103: the defaults chosen when the constructor was given None.
DefaultMaxCostEvals(d) == Max(1000, 2 * d)
DefaultMaxIter(d) == Max(2000, 4 * d)

\* np.argsort(c): a permutation that puts c in ascending order (the order of
\* equal costs is the sorting algorithm's).
Orders(n) ==
    {p \in [1..n -> 1..n] : \A i, j \in 1..n : i # j => p[i] # p[j]}
ArgSort(c) ==
    {p \in Orders(Len(c)) :
        \A i, j \in 1..Len(c) : i < j => c[p[i]] <= c[p[j]]}
\* costs[order], [x[i] for i in order]
Reorder(s, order) == [i \in 1..Len(s) |-> s[order[i]]]

\* [objective(xi) for xi in x]
CostsOf(pts) == [i \in 1..Len(pts) |-> obj[pts[i]]]

IsSorted(c) == \A i, j \in 1..Len(c) : i < j => c[i] <= c[j]

\* What a caller may pass as the initial simplex x.
Lists(maxlen) == UNION {[1..n -> Points] : n \in 0..maxlen}

\* NelderMead._check_stopping_criterion(iter, costevals, time0)
NMStop(timeup, it, evals) ==
    \/ it >= Val(maxiter)
    \/ evals >= Val(maxcostevals)
    \/ timeup

----------------------------------------------------------------------------
(* NelderMead.solve *)

\* Lines 117-132 for the simplex x0 that lines 105-115 left.
NM_Begin(x0) ==
    /\ xi' = IF Len(x0) = 0 THEN None ELSE Some(x0[Len(x0)])
    /\ costevals' = dim' + 1
    /\ \E order \in ArgSort(CostsOf(x0)) :
         /\ costs' = Reorder(CostsOf(x0), order)
         /\ x' = Reorder(x0, order)
    /\ iter' = 0
    /\ pc' = "loop"
    /\ UNCHANGED result

\* Lines 90-132.
NM_Solve ==
    /\ solver = "NM"
    /\ pc = "init"
    /\ \E d \in Given(1..MaxDim, Then.dim) : dim' = d
    /\ maxcostevals' = IF maxcostevals = None
                       THEN Some(DefaultMaxCostEvals(dim')) ELSE maxcostevals
    /\ maxiter' = IF maxiter = None
                  THEN Some(DefaultMaxIter(dim')) ELSE maxiter
    /\ \/ \* x is None: a simplex of the manifold's random points
          \E x0 \in Given([1..(dim' + 1) -> Points], Then.x) : NM_Begin(x0)
       \/ \* x is not iterable
          /\ pc' = "raised"
          /\ result' = <<"raise", "ValueError">>
          /\ UNCHANGED <<x, iter, costs, xi, costevals>>
       \/ \* x is a list of the caller's (given again, it is given as the
          \* first call left it)
          \E l \in Given(Lists(MaxDim + 2), Then.x) :
             NM_Begin(IF Len(l) # dim' + 1
                      THEN SubSeq(l, 1, Min(Len(l), dim' + 1)) ELSE l)
    /\ UNCHANGED <<solver, obj, baseFields, optlog, bbFields,
                   bbLocals, xr, costr, xc, printed, ctor, adVars, twiceVars>>

\* Lines 134-152: the head of the loop.
NM_Check ==
    /\ solver = "NM"
    /\ pc = "loop"
    /\ iter <= MaxIter
    /\ iter' = iter + 1
    /\ \E order \in ArgSort(costs) :
         /\ costs' = Reorder(costs, order)
         /\ x' = Reorder(x, order)
    /\ \E timeup \in BOOLEAN :
         pc' = IF NMStop(timeup, iter', costevals) THEN "break" ELSE "body"
    /\ UNCHANGED <<solver, obj, result, maxiter, maxcostevals, baseFields,
                   optlog, bbFields, bbLocals, dim, xi, costevals, xr, costr,
                   xc, printed, ctor, adVars, twiceVars>>

\* A replacement that overwrites the best point instead of the worst.
ReplaceWorst_Best(p, c, name, evals) ==
    /\ costs' = [costs EXCEPT ![1] = c]
    /\ x' = [x EXCEPT ![1] = p]
    /\ printed' = name
    /\ costevals' = costevals + evals
    /\ pc' = "loop"
    /\ UNCHANGED result

\* A replacement that assigns the evaluation counter instead of adding to it.
ReplaceWorst_AssignEvals(p, c, name, evals) ==
    /\ costs' = [costs EXCEPT ![Len(costs)] = c]
    /\ x' = [x EXCEPT ![Len(x)] = p]
    /\ printed' = name
    /\ costevals' = evals
    /\ pc' = "loop"
    /\ UNCHANGED result

\* costs[-1] = c; x[-1] = p; continue
ReplaceWorst(p, c, name, evals) ==
    /\ costs' = [costs EXCEPT ![Len(costs)] = c]
    /\ x' = [x EXCEPT ![Len(x)] = p]
    /\ printed' = name
    /\ costevals' = costevals + evals
    /\ pc' = "loop"
    /\ UNCHANGED result

\* Lines 213-219, reached after evals cost evaluations in this iteration.
Shrink(evals) ==
    LET n == Len(x)
        \* the indices the loop of line 216 assigns before it ends or fails
        done == 2..Min(n, dim + 1)
    IN  /\ printed' = "Shrinkage"
        /\ \E pm \in [done -> Points] :
             x' = [i \in 1..n |-> IF i \in done THEN pm[i] ELSE x[i]]
        /\ costs' = [i \in 1..n |-> IF i \in done THEN obj[Val(xi)]
                                                 ELSE costs[i]]
        /\ IF n < dim + 1
           THEN \* line 217: x[i] with i = len(x)
                /\ pc' = "raised"
                /\ result' = <<"raise", "IndexError">>
                /\ costevals' = costevals + evals
           ELSE /\ pc' = "loop"
                /\ costevals' = costevals + evals + dim
                /\ UNCHANGED result

\* An acceptance test that is strict on the side of the best point.
AcceptsReflection_Strict(cr, c) == cr > c[1] /\ cr < c[Len(c) - 1]

\* Line 167: the reflected point is accepted as it is.
AcceptsReflection(cr, c) == cr >= c[1] /\ cr < c[Len(c) - 1]
\* Line 174: the reflected point beats the best point.
WantsExpansion(cr, c) == cr < c[1]
\* Line 191: the reflected point is no better than the second worst.
WantsContraction(cr, c) == cr >= c[Len(c) - 1]
\* Line 192: the contraction is an outside one.
IsOutside(cr, c) == cr < c[Len(c)]

\* Lines 154-219: one iteration.
NM_Iterate ==
    /\ solver = "NM"
    /\ pc = "body"
    /\ LET n == Len(x) IN
       \/ \* line 158: x[-1] of an empty simplex
          /\ n = 0
          /\ pc' = "raised"
          /\ result' = <<"raise", "IndexError">>
          /\ UNCHANGED <<x, costs, costevals, xr, costr, xc, printed>>
       \/ \* line 167: costs[-2] of a simplex of one point
          /\ n = 1
          /\ \E p \in Given(Points, Then.xr) : xr' = p /\ costr' = obj[p]
          /\ costevals' = costevals + 1
          /\ pc' = "raised"
          /\ result' = <<"raise", "IndexError">>
          /\ UNCHANGED <<x, costs, xc, printed>>
       \/ /\ n >= 2
          /\ \E p \in Given(Points, Then.xr) : xr' = p /\ costr' = obj[p]
          /\ IF AcceptsReflection(costr', costs)
             THEN \* lines 167-171
                  xc' = 0 /\ ReplaceWorst(xr', costr', "Reflection", 1)
             ELSE IF WantsExpansion(costr', costs)
             THEN \* lines 174-187
                  \E xe \in Given(Points, Then.xc) :
                     LET coste == obj[xe] IN
                     /\ xc' = xe
                     /\ IF coste < costr'
                        THEN ReplaceWorst(xe, coste, "Expansion", 2)
                        ELSE ReplaceWorst(xr', costr',
                                          "Reflection (failed expansion)", 2)
             ELSE IF WantsContraction(costr', costs)
             THEN IF IsOutside(costr', costs)
                  THEN \* lines 193-201
                       \E xoc \in Given(Points, Then.xc) :
                          LET costoc == obj[xoc] IN
                          /\ xc' = xoc
                          /\ IF costoc <= costr'
                             THEN ReplaceWorst(xoc, costoc,
                                               "Outside contraction", 2)
                             ELSE Shrink(2)
                  ELSE \* lines 203-211
                       \E xic \in Given(Points, Then.xc) :
                          LET costic == obj[xic] IN
                          /\ xc' = xic
                          /\ IF costic <= costs[n]
                             THEN ReplaceWorst(xic, costic,
                                               "Inside contraction", 2)
                             ELSE Shrink(2)
             ELSE xc' = 0 /\ Shrink(1)
    /\ UNCHANGED <<solver, obj, iter, maxiter, maxcostevals,
                   baseFields, optlog, bbFields, bbLocals, dim, xi, ctor,
                   adVars, twiceVars>>

\* Line 221.
NM_Return ==
    /\ solver = "NM"
    /\ pc = "break"
    /\ IF Len(x) = 0
       THEN pc' = "raised" /\ result' = <<"raise", "IndexError">>
       ELSE pc' = "returned" /\ result' = <<"point", x[1]>>
    /\ UNCHANGED <<solver, obj, x, iter, maxiter, maxcostevals, baseFields,
                   optlog, bbFields, bbLocals, nmLocals, ctor,
                   adVars, twiceVars>>

----------------------------------------------------------------------------
(* The autodiff backends: values *)

\* A numpy array (of which the model keeps the shape), a torch tensor, a
\* tuple or list, the name of an argument in a signature, and no value.
Arr(s) == [tag |-> "ndarray", shape |-> s, elems |-> <<>>]
Tensor(s) == [tag |-> "tensor", shape |-> s, elems |-> <<>>]
Tup(es) == [tag |-> "tuple", shape |-> 0, elems |-> es]
Name == [tag |-> "str", shape |-> 0, elems |-> <<>>]
Nil == [tag |-> "none", shape |-> 0, elems |-> <<>>]
TypeError == [tag |-> "TypeError", shape |-> 0, elems |-> <<>>]

\* tools.flatten_arguments(arguments): the arguments in order, with every
\* tuple or list among them replaced by its (flattened) elements.
RECURSIVE FlattenArguments(_)
FlattenArguments(as) ==
    IF as = <<>> THEN <<>>
    ELSE (IF Head(as).tag = "tuple"
          THEN FlattenArguments(Head(as).elems)
          ELSE <<Head(as)>>) \o FlattenArguments(Tail(as))

\* The groups that tools.group_return_values cuts a flat list of return
\* values into: one element per element of the signature, a tuple of n
\* values for a group of n arguments and a single value for an argument.
RECURSIVE Regroup(_, _)
Regroup(values, signature) ==
    IF signature = <<>> THEN <<>>
    ELSE LET e == Head(signature)
             n == IF e.tag = "tuple" THEN Len(e.elems) ELSE 1
         IN  <<IF e.tag = "tuple" THEN Tup(SubSeq(values, 1, n))
                                  ELSE values[1]>>
             \o Regroup(SubSeq(values, n + 1, Len(values)), Tail(signature))

\* What group_return_values(function, signature) returns when function
\* returns values.
GroupReturnValues(values, signature) == Tup(Regroup(values, signature))

----------------------------------------------------------------------------
(* The autodiff backends: compute_gradient and compute_hessian *)

\* torch.from_numpy(argument)
FromNumpy(a) == IF a.tag = "ndarray" THEN Tensor(a.shape) ELSE TypeError

\* _PyTorchBackend._sanitize_gradient(tensor): tensor.grad or zeros of
\* tensor.shape, as a numpy array.
SanitizeGradient(t) == IF t.tag = "tensor" THEN Arr(t.shape) ELSE TypeError
\* _PyTorchBackend._sanitize_gradients(tensors)
SanitizeGradients(ts) == [i \in 1..Len(ts) |-> SanitizeGradient(ts[i])]

\* A gradient of the PyTorch backend that is returned as the flat list.
PyTorchGradient_Ungrouped(args, pt) ==
    IF Len(FlattenArguments(args)) = 1
    THEN SanitizeGradient(FromNumpy(pt))
    ELSE LET flat == FlattenArguments(pt.elems)
             torch_arguments == [i \in 1..Len(flat) |-> FromNumpy(flat[i])]
         IN  Tup(SanitizeGradients(torch_arguments))

\* The value of _PyTorchBackend.compute_gradient(function, args)(pt).
PyTorchGradient(args, pt) ==
    IF Len(FlattenArguments(args)) = 1
    THEN SanitizeGradient(FromNumpy(pt))
    ELSE LET flat == FlattenArguments(pt.elems)
             torch_arguments == [i \in 1..Len(flat) |-> FromNumpy(flat[i])]
         IN  GroupReturnValues(SanitizeGradients(torch_arguments), args)

\* The value of _PyTorchBackend.compute_hessian(function, args)(pt, vec).
PyTorchHessian(args, pt, vec) ==
    IF Len(FlattenArguments(args)) = 1
    THEN IF FromNumpy(vec) = TypeError THEN TypeError
         ELSE SanitizeGradient(FromNumpy(pt))
    ELSE LET flat == FlattenArguments(pt.elems)
             xs == [i \in 1..Len(flat) |-> FromNumpy(flat[i])]
             vflat == FlattenArguments(vec.elems)
             vs == [i \in 1..Len(vflat) |-> FromNumpy(vflat[i])]
         IN  IF \E i \in 1..Len(vs) : vs[i] = TypeError THEN TypeError
             ELSE GroupReturnValues(SanitizeGradients(xs), args)

\* What a function compiled by theano.function(inputs, outputs) returns
\* when outputs are the derivatives with respect to the first n inputs:
\* one array per such input, of the input's type.
Compiled(inputs, n) == [i \in 1..n |-> Arr(inputs[i].shape)]

\* The value of _TheanoBackend.compute_gradient(function, args)(pt).
TheanoGradient(args, pt) ==
    IF Len(FlattenArguments(args)) = 1
    THEN Compiled(<<pt>>, 1)[1]
    ELSE LET flat == FlattenArguments(pt.elems)
         IN  IF Len(flat) # Len(FlattenArguments(args)) THEN TypeError
             ELSE GroupReturnValues(Compiled(flat, Len(flat)), args)

\* The value of _TheanoBackend.compute_hessian(function, args)(pt, vec).
TheanoHessian(args, pt, vec) ==
    LET n == Len(FlattenArguments(args))
    IN  IF n = 1
        THEN Compiled(<<pt, vec>>, 1)[1]
        ELSE LET inputs == FlattenArguments(pt.elems)
                              \o FlattenArguments(vec.elems)
             IN  IF Len(inputs) # 2 * n THEN TypeError
                 ELSE GroupReturnValues(Compiled(inputs, n), args)

\* The points of the backends' tests: an array for a unary cost, and for
\* k >= 2 parameters a tuple of k elements, each an array or a group of
\* arrays.
Leaves == {Arr(s) : s \in 1..MaxShape}
Groups == {Tup(es) : es \in UNION {[1..n -> Leaves] : n \in 2..MaxGroup}}
NestedPoints ==
    Leaves \cup
    {Tup(es) : es \in UNION {[1..k -> Leaves \cup Groups] : k \in 2..MaxParams}}

\* The signature a cost function is decorated with when its points are
\* like pt: a name per array, grouped as the arrays are.
SignatureOf(pt) ==
    IF pt.tag = "ndarray" THEN <<Name>>
    ELSE [i \in 1..Len(pt.elems) |->
             IF pt.elems[i].tag = "tuple"
             THEN Tup([j \in 1..Len(pt.elems[i].elems) |-> Name])
             ELSE Name]

\* egrad = cost.compute_gradient(); g = egrad(point)
AD_CallGradient ==
    /\ backend # "none"
    /\ egrad_value = Nil
    /\ egrad_value' = IF backend = "PyTorch"
                      THEN PyTorchGradient(arguments, point)
                      ELSE TheanoGradient(arguments, point)
    /\ UNCHANGED <<backend, arguments, point, ehess_value, solverVars>>

\* ehess = cost.compute_hessian(); h = ehess(point, vector), with a vector
\* of the point's nesting and shapes (in this model: the same value).
AD_CallHessian ==
    /\ backend # "none"
    /\ ehess_value = Nil
    /\ LET vector == point
       IN  ehess_value' = IF backend = "PyTorch"
                          THEN PyTorchHessian(arguments, point, vector)
                          ELSE TheanoHessian(arguments, point, vector)
    /\ UNCHANGED <<backend, arguments, point, egrad_value, solverVars>>

\* No backend takes part in a run of a solver.
NoBackend ==
    /\ backend = "none"
    /\ arguments = <<>>
    /\ point = Nil
    /\ egrad_value = Nil
    /\ ehess_value = Nil

----------------------------------------------------------------------------
(* The solver object, and the specification *)

\* The cost functions: points are interchangeable, so the tables that are
\* ascending in the point's number stand for all.
ObjTables ==
    {f \in [Points -> CostVals] : \A p, q \in Points : p < q => f[p] <= f[q]}

\* (lambdamin, lambdamax) as the constructor may get them: the defaults
\* (lines 23), a narrow interval, and an inverted one.
LambdaBounds ==
    { <<<<1, 1000>>, <<1000, 1>>>>,
      <<<<3, 4>>, <<3, 2>>>>,
      <<<<3, 2>>, <<3, 4>>>> }

\* The arguments of BarzilaiBorwein's constructor, which has not run yet.
\* BarzilaiBorwein.solve reads the cost only to print and log it: one cost
\* table stands for all.  linesearch is the placeholder of line 45 or a
\* line search that returns a pair, as line 112 expects (spec 4.3).
InitBB ==
    /\ solver = "BB"
    /\ obj \in {f \in ObjTables : \A p \in Points : f[p] = 0}
    /\ x = None
    /\ maxiter = Some(MaxIter + 1)
    /\ maxcostevals = None
    /\ mingradnorm = 1
    /\ minstepsize = 1
    /\ logverbosity \in 0..2
    /\ \E b \in LambdaBounds : lambdamin = b[1] /\ lambdamax = b[2]
    /\ lambda0 = <<1, 10>>
    /\ pc = "new"
    /\ strategy \in Strategies \cup {"unknown"}
    /\ linesearch \in {"placeholder", "pair"}

\* NelderMead.__init__ (lines 45-53) stores its arguments and rejects
\* nothing: the object after construction.
InitNM ==
    /\ solver = "NM"
    /\ obj \in ObjTables
    /\ x = <<>>
    /\ maxiter \in {None, Some(MaxIter)}
    /\ maxcostevals \in {None, Some(MaxDim + MaxIter)}
    /\ mingradnorm = 1
    /\ minstepsize = 1
    /\ logverbosity \in {0, 2}
    /\ lambdamin = None /\ lambdamax = None /\ lambda0 = None
    /\ strategy = "none"
    /\ linesearch = "none"
    /\ pc = "init"

Constructed ==
    /\ iter = 0
    /\ result = <<>>
    /\ optlog = <<>>
    /\ lambda_ = None
    /\ stepsize = None
    /\ gradnorm = 0
    /\ Stransp = <<0, 0>>
    /\ Y = <<0, 0>>
    /\ dim = 0
    /\ costs = <<>>
    /\ xi = None
    /\ costevals = 0
    /\ xr = 0
    /\ costr = 0
    /\ xc = 0
    /\ printed = ""
    /\ (InitBB \/ InitNM)
    /\ ctor = [maxcostevals |-> maxcostevals, maxiter |-> maxiter]
    /\ NoBackend

\* solve is called once.
Init ==
    /\ Constructed
    /\ call = 0
    /\ hist = <<>>

Next ==
    \/ BB_Init
    \/ BB_Solve
    \/ BB_Check
    \/ BB_Iterate
    \/ BB_Return
    \/ NM_Solve
    \/ NM_Check
    \/ NM_Iterate
    \/ NM_Return

Spec == Init /\ [][Next]_vars

\* Runs whose maximal number of iterations is finite and within the bounds
\* of the model; solve is single-threaded and every call it makes returns,
\* so a step that is possible is taken.
FairInit == Init /\ maxiter # None
FairSpec == FairInit /\ [][Next]_vars /\ WF_vars(Next)

\* A decorated cost function and a point of its signature; no solver runs.
BackendInit ==
    /\ backend \in {"PyTorch", "Theano"}
    /\ point \in NestedPoints
    /\ arguments = SignatureOf(point)
    /\ egrad_value = Nil
    /\ ehess_value = Nil
    /\ solver = "none"
    /\ pc = "init"
    /\ obj = [p \in Points |-> 0]
    /\ x = <<>>
    /\ iter = 0
    /\ result = <<>>
    /\ maxiter = None /\ maxcostevals = None
    /\ mingradnorm = 1 /\ minstepsize = 1 /\ logverbosity = 0
    /\ optlog = <<>>
    /\ lambdamin = None /\ lambdamax = None /\ lambda0 = None
    /\ strategy = "none" /\ linesearch = "none"
    /\ lambda_ = None /\ stepsize = None /\ gradnorm = 0
    /\ Stransp = <<0, 0>> /\ Y = <<0, 0>>
    /\ dim = 0 /\ costs = <<>> /\ xi = None /\ costevals = 0
    /\ xr = 0 /\ costr = 0 /\ xc = 0 /\ printed = ""
    /\ ctor = [maxcostevals |-> None, maxiter |-> None]
    /\ call = 0
    /\ hist = <<>>

BackendNext ==
    \/ AD_CallGradient
    \/ AD_CallHessian

BackendSpec == BackendInit /\ [][BackendNext]_vars

----------------------------------------------------------------------------
(* Two calls of solve on the same solver object, one after the other *)

\* A step of solve, of either solver.
SolveStep ==
    \/ BB_Solve
    \/ BB_Check
    \/ BB_Iterate
    \/ BB_Return
    \/ NM_Solve
    \/ NM_Check
    \/ NM_Iterate
    \/ NM_Return

\* The step is not a stop by the clock, and the initial simplex is a list.
NoTimeStop ==
    /\ pc' = "break" =>
          IF solver = "NM"
          THEN NMStop(FALSE, iter', costevals)
          ELSE BaseStop(FALSE, iter + 1, gradnorm, stepsize)
    /\ result' # <<"raise", "ValueError">>

\* Inner and NormSq do not see the symmetries of the plane (the reflections
\* in the axes and in the diagonal): up to these, the transported step lies
\* in the first octant.
UpToSymmetry == 0 <= Stransp'[2] /\ Stransp'[2] <= Stransp'[1]

\* The first call runs; every state it reaches is recorded before it goes
\* on.
FirstCallStep ==
    /\ call = 1
    /\ pc # "new"
    /\ Len(hist) = StepsTaken + 1
    /\ SolveStep
    /\ NoTimeStop
    /\ UpToSymmetry

Record ==
    /\ call = 1
    /\ pc # "new"
    /\ Len(hist) = StepsTaken
    /\ hist' = Append(hist, Snapshot)
    /\ UNCHANGED <<solver, pc, obj, x, iter, result, maxiter, maxcostevals,
                   baseFields, optlog, bbFields, bbLocals, nmLocals, ctor,
                   adVars, call>>

\* solve is called again on the same solver object with the same
\* arguments: the locals are those of a new call, the fields of the
\* object (maxiter, maxcostevals, the log) are what the first call left.
CallAgain ==
    /\ call = 1
    /\ pc \in {"returned", "raised"}
    /\ Len(hist) = StepsTaken + 1
    /\ call' = 2
    /\ pc' = "init"
    /\ x' = hist[1].x
    /\ iter' = 0
    /\ result' = <<>>
    /\ lambda_' = None
    /\ stepsize' = None
    /\ gradnorm' = 0
    /\ Stransp' = <<0, 0>>
    /\ Y' = <<0, 0>>
    /\ dim' = 0
    /\ costs' = <<>>
    /\ xi' = None
    /\ costevals' = 0
    /\ xr' = 0 /\ costr' = 0 /\ xc' = 0
    /\ printed' = ""
    /\ UNCHANGED <<solver, obj, maxiter, maxcostevals, baseFields, optlog,
                   bbFields, ctor, adVars, hist>>

\* What the running call was given by its caller, by the manifold, by the
\* gradient and by the line search is what the first call was given at
\* the same step: the values that only record what was given, and with x
\* the values that the code has put in their place.
SameGiven(h) ==
    /\ xi = h.xi
    /\ dim = h.dim
    /\ xr = h.xr
    /\ xc = h.xc
    /\ stepsize = h.stepsize
    /\ Stransp = h.Stransp
    /\ Y = h.Y
SameInputs(h) == x = h.x /\ SameGiven(h)

\* What the running call has computed is what the first call had computed
\* at the same step.
SameOutputs(h) ==
    /\ pc = h.pc
    /\ iter = h.iter
    /\ result = h.result
    /\ costs = h.costs
    /\ costevals = h.costevals
    /\ costr = h.costr
    /\ printed = h.printed
    /\ lambda_ = h.lambda_
    /\ gradnorm = h.gradnorm
    /\ Snapshot.optlog = h.optlog

\* The second call runs for as long as it is where the first call was,
\* and is given what the first call was given at the same step.
SecondCallStep ==
    /\ call = 2
    /\ StepsTaken + 1 <= Len(hist)
    /\ SameInputs(hist[StepsTaken + 1])
    /\ SameOutputs(hist[StepsTaken + 1])
    /\ SolveStep
    /\ NoTimeStop
    /\ (StepsTaken + 1 <= Len(hist) => SameInputs(hist[StepsTaken + 1]))'

\* A solver with a valid configuration, which logs every iteration, about
\* to be called twice: BarzilaiBorwein with the default upper bound of the
\* step, NelderMead with one of its two limits left to its default.
TwiceInit ==
    /\ Constructed
    /\ strategy # "unknown"
    /\ logverbosity = 2
    /\ solver = "BB" => lambdamax = <<1000, 1>>
    /\ solver = "NM" => (maxiter = None) # (maxcostevals = None)
    /\ call = 1
    /\ hist = <<>>

TwiceNext ==
    \/ BB_Init
    \/ FirstCallStep
    \/ Record
    \/ CallAgain
    \/ SecondCallStep

TwiceSpec == TwiceInit /\ [][TwiceNext]_vars

----------------------------------------------------------------------------
(* Properties *)

\* BarzilaiBorwein.solve has updated the step at least once, and lambda_,
\* Stransp and Y are those of the last update.
StepUpdated == solver = "BB" /\ iter > 0 /\ pc # "raised"

InBounds(l) == RLe(lambdamin, l) /\ RLe(l, lambdamax)

SortedBest(c) ==
    CHOOSE v \in {c[i] : i \in 1..Len(c)} : \A i \in 1..Len(c) : v <= c[i]

\* C3: in NelderMead.solve the least recorded cost of the simplex, which is
\* costs[0] after each sort, never increases, whichever step is taken.
C3_BestNeverIncreases ==
    [][(solver = "NM" /\ costs # <<>> /\ costs' # <<>>)
         => SortedBest(costs') <= SortedBest(costs)]_vars

\* An expansion has put a point below the former best.
C3_Witness ==
    /\ solver = "NM"
    /\ pc = "loop"
    /\ printed = "Expansion"
    /\ Len(x) = dim + 1
    /\ costs[Len(costs)] < costs[1]

\* C4: a solve call whose maximal number of iterations is finite eventually
\* returns (or an invalid configuration is rejected with ValueError).
C4_SolveReturns ==
    <>(pc = "returned" \/ result = <<"raise", "ValueError">>)

\* C5: at every stopping-criterion check of NelderMead.solve the simplex has
\* dim + 1 points and the costs are in ascending order.
C5_SimplexShape ==
    (solver = "NM" /\ pc \in {"body", "break"})
        => (Len(x) = dim + 1 /\ Len(costs) = dim + 1 /\ IsSorted(costs))

\* C6: one iteration of NelderMead.solve on a simplex of n >= 2 points, with
\* costr the cost of the reflected point: if costs[0] <= costr < costs[-2]
\* the reflected point replaces the worst; if costr < costs[0] an expansion
\* point is evaluated and the better of the two replaces the worst; if
\* costr >= costs[-2] a contraction point is evaluated, outside when
\* costr < costs[-1] and inside otherwise, and replaces the worst when it
\* is accepted.  An accepted step changes the last point and cost only.
C6_AcceptanceRules ==
    [][(solver = "NM" /\ pc = "body" /\ Len(x) >= 2) =>
        LET n == Len(x)
            cr == costr'
            OnlyWorst ==
                /\ Len(x') = n /\ Len(costs') = n
                /\ \A i \in 1..(n - 1) : x'[i] = x[i] /\ costs'[i] = costs[i]
        IN  /\ cr = obj[xr']
            /\ (cr >= costs[1] /\ cr < costs[n - 1]) =>
                  /\ printed' = "Reflection"
                  /\ costevals' = costevals + 1
                  /\ OnlyWorst /\ x'[n] = xr' /\ costs'[n] = cr
            /\ cr < costs[1] =>
                  /\ xc' \in Points
                  /\ costevals' = costevals + 2
                  /\ OnlyWorst
                  /\ IF obj[xc'] < cr
                     THEN /\ printed' = "Expansion"
                          /\ x'[n] = xc' /\ costs'[n] = obj[xc']
                     ELSE /\ printed' = "Reflection (failed expansion)"
                          /\ x'[n] = xr' /\ costs'[n] = cr
            /\ cr >= costs[n - 1] =>
                  /\ xc' \in Points
                  /\ printed' \in {"Outside contraction",
                                   "Inside contraction", "Shrinkage"}
                  /\ printed' = "Outside contraction" =>
                        /\ cr < costs[n] /\ obj[xc'] <= cr
                        /\ OnlyWorst /\ x'[n] = xc' /\ costs'[n] = obj[xc']
                  /\ printed' = "Inside contraction" =>
                        /\ cr >= costs[n] /\ obj[xc'] <= costs[n]
                        /\ OnlyWorst /\ x'[n] = xc' /\ costs'[n] = obj[xc']
            /\ printed' = "Shrinkage" => cr >= costs[n - 1]
    ]_vars

\* An inside contraction was accepted on a full simplex.
C6_Witness ==
    /\ solver = "NM"
    /\ pc = "loop"
    /\ printed = "Inside contraction"
    /\ Len(x) = dim + 1
    /\ costs[Len(costs)] = obj[xc]
    /\ costr >= costs[Len(costs)]

\* C7: a shrinkage keeps x[0] and its cost, and records for every other
\* point the objective value of the point that replaced it.
C7_ShrinkRecordsNewCosts ==
    [][(solver = "NM" /\ pc = "body" /\ pc' = "loop"
                      /\ printed' = "Shrinkage") =>
        /\ x'[1] = x[1]
        /\ costs'[1] = costs[1]
        /\ \A i \in 2..Len(x') : costs'[i] = obj[x'[i]]
    ]_vars

\* C8: iter and costevals never decrease in a step of solve.
C8_CountersMonotone ==
    [][iter' >= iter /\ costevals' >= costevals]_vars

\* NelderMead.solve is in its second pass or later and has evaluated the
\* cost more often than on the initial simplex.
C8_Witness ==
    /\ solver = "NM"
    /\ iter >= 2
    /\ costevals >= dim + 3

\* C9: when solve has returned, maxiter and maxcostevals of the solver
\* object are what the constructor was given.
C9_ConfigurationKept ==
    pc = "returned"
        => (maxiter = ctor.maxiter /\ maxcostevals = ctor.maxcostevals)

\* C10: solve returns the point alone when logging is disabled and the
\* pair (point, log) when it is enabled.
C10_ReturnShape ==
    pc = "returned" =>
        IF logverbosity <= 0 THEN result[1] = "point"
                             ELSE result[1] = "pair"

\* The log calls of n passes through the head of the loop.
Appends(n) == [i \in 1..n |-> "append"]

C12_LineSearchReturnsPair ==
    solver = "BB" => result # <<"raise", "TypeError">>

\* The nesting of a value: its tuples, with every array replaced by a mark.
RECURSIVE Nesting(_)
Nesting(v) ==
    IF v.tag = "tuple"
    THEN Tup([i \in 1..Len(v.elems) |-> Nesting(v.elems[i])])
    ELSE [tag |-> v.tag, shape |-> 0, elems |-> <<>>]

\* C13: what the callables of compute_gradient() and compute_hessian()
\* return has the nesting of the point: an array for a unary cost function,
\* and for a signature of k >= 2 parameters a tuple or list of k elements,
\* an array for an argument and a group of n arrays for a group of n
\* arguments; every array returned has the shape of the point's array in
\* its place.
C13_NestingPreserved ==
    \A v \in {egrad_value, ehess_value} :
        v # Nil =>
            /\ Nesting(v) = Nesting(point)
            /\ v = point
            /\ Len(arguments) >= 2 =>
                  (v.tag = "tuple" /\ Len(v.elems) = Len(arguments))
            /\ Len(arguments) = 1 => v.tag = "ndarray"

\* The gradient and the Hessian-vector product of a cost function with the
\* signature ((x, y), z) were computed: a group of two arrays and an array.
C13_Witness ==
    /\ backend = "PyTorch"
    /\ arguments = <<Tup(<<Name, Name>>), Name>>
    /\ egrad_value # Nil /\ ehess_value # Nil
    /\ Len(egrad_value.elems) = 2
    /\ egrad_value.elems[1].tag = "tuple"
    /\ Len(egrad_value.elems[1].elems) = 2
    /\ egrad_value.elems[2].tag = "ndarray"
    /\ ehess_value.elems[1].tag = "tuple"

\* An invalid configuration was rejected with ValueError, and nothing was
\* evaluated, iterated or logged.
Rejected ==
    /\ pc = "raised"
    /\ result = <<"raise", "ValueError">>
    /\ iter = 0
    /\ costevals = 0
    /\ costs = <<>>
    /\ optlog = <<>>

\* C14: a BarzilaiBorwein constructor given a strategy that is none of
\* direct, inverse and alternate raises ValueError, and so does
\* NelderMead.solve given an initial simplex that is not iterable; wherever
\* ValueError was raised, no cost was evaluated and no iteration was made
\* before it.
C14_InvalidRejected ==
    /\ (solver = "BB" /\ strategy \notin Strategies /\ pc # "new")
          => Rejected
    /\ result = <<"raise", "ValueError">> => Rejected

\* The constructor has rejected an unknown strategy.
C14_Witness ==
    /\ solver = "BB"
    /\ strategy \notin Strategies
    /\ Rejected

C16_DocumentedDefaults ==
    (solver = "NM" /\ dim > 0) =>
        /\ ctor.maxcostevals = None => maxcostevals = Some(Max(5000, 2 * dim))
        /\ ctor.maxiter = None => maxiter = Some(Max(500, 4 * dim))

\* The secant ratio that the alternate strategy is to use in the iteration
\* with index it: direct on even, inverse on odd indices.
RatioOfParity(S, Yv, it) ==
    IF it % 2 = 0 THEN <<NormSq(S), Inner(S, Yv)>>
                  ELSE <<Inner(S, Yv), NormSq(Yv)>>

C18_IterCountsExecuted ==
    (solver = "NM" /\ pc \in {"body", "break"} /\ printed = "") => iter = 0

\* C19: at every stopping-criterion check of NelderMead.solve, the recorded
\* cost costs[i] of every simplex point is the objective at x[i], and the
\* point that solve returns is a simplex point of least objective value.
C19_CostsAreObjective ==
    solver = "NM" =>
        /\ pc \in {"body", "break"} =>
              \A i \in 1..Len(x) : costs[i] = obj[x[i]]
        /\ pc = "returned" =>
              \A i \in 1..Len(x) : obj[result[2]] <= obj[x[i]]

====
